---- MODULE Spec2Model ----
(***************************************************************************)
(* CuPyNumbaManager: a Numba external-memory-manager plugin that serves    *)
(* device allocations from CuPy's default memory pool.                     *)
(*                                                                         *)
(* Two variants of the class are modelled side by side:                    *)
(*   "nbep7"  src/nbep7/cupy_mempool.py  (the packaged, improved variant)  *)
(*   "orig"   src/cupy_mempool.py        (the original variant)            *)
(*                                                                         *)
(* The CuPy pool and the Numba base class are collaborators outside the    *)
(* repository; they are modelled at the call sites of the plugin by the    *)
(* contract the plugin relies on: malloc hands out a block that is not in  *)
(* use, a block is in use for as long as its MemoryPointer object is       *)
(* referenced, and free_all_blocks drops the cached free blocks.           *)
(***************************************************************************)
EXTENDS Integers, Sequences, FiniteSets, TLC

\* ------------------------------------------------------------------ bounds
MaxAddr == 2
MaxHandles == 2
MaxRepeat == 1
MaxDepth == 1

Addr == 1..MaxAddr
\* request sizes: one float64, and the ten float64 of the smoke test's array
NBytes == {8, 80}
Streams == {0, 1}
Variants == {"nbep7", "orig"}

\* ------------------------------------------------------------------- state
VARIABLES
    variant,      \* which of the two source files the instance is built from
    logging,      \* self._logging
    mp,           \* self._mp
    allocations,  \* self._allocations: ptr -> id of the cupy MemoryPointer
    handles,      \* the MemoryPointer handles returned so far, in order
    finCalls,     \* how often the runtime has invoked each handle's finalizer
    poolUsed,     \* default pool: block address -> size, blocks in use
    poolFree,     \* default pool: block address -> size, cached free blocks
    deferDepth,   \* nesting depth of the base class's deferred-cleanup scope
    snap,         \* allocate-then-release round trip: the registry keys and
                  \* in-use blocks before the memalloc, and how far it got
    allocLog,     \* the "Allocated" records printed so far, oldest first
    out,          \* the last call's trace, in program order: what it printed
                  \* and what it did to the registry
    ret           \* the last call and its outcome

vars == <<variant, logging, mp, allocations, handles, finCalls,
          poolUsed, poolFree, deferDepth, snap, allocLog, out, ret>>

\* ----------------------------------------------------------- Python values
Unset == "unset"            \* the attribute does not exist on the instance
None == "None"
DefaultPool == "default_pool"
OtherPool == "other_pool"
Pools == {DefaultPool, OtherPool}

EmptyDict == [k \in {} |-> 0]
NoSnap == [keys |-> {}, used |-> {}, stage |-> "none"]

\* dict[k] = v : binds k to v, replacing any earlier binding
DictSet(d, k, v) == [x \in (DOMAIN d) \cup {k} |-> IF x = k THEN v ELSE d[x]]

\* dict.pop(k) for a key that is present
DictPop_Keeps(d, k) == d
DictPop_Clears(d, k) == [x \in {} |-> 0]
DictPop(d, k) == [x \in (DOMAIN d) \ {k} |-> d[x]]

\* self._mp.<method>: the attribute lookup succeeds and yields a pool
HasPool_Always(m) == TRUE
HasPool(m) == m \in Pools

\* "if self._mp:" -- None is falsy, a pool object is truthy
Truthy_Always(m) == TRUE
Truthy(m) == m \in Pools

\* cupy.get_default_memory_pool(): the process-wide pool
get_default_memory_pool_New == OtherPool
get_default_memory_pool == DefaultPool

\* ------------------------------------------------------------------- pool
\* addresses malloc(n) may return: a cached free block that is large enough,
\* or a block newly taken from the device
PoolMallocChoices(n) ==
    {a \in Addr : /\ a \notin DOMAIN poolUsed
                  /\ (a \in DOMAIN poolFree => poolFree[a] >= n)}

PoolBlockSize(a, n) == IF a \in DOMAIN poolFree THEN poolFree[a] ELSE n

\* the last reference to a pool MemoryPointer goes away: its block returns
\* to the pool's free list
PoolFreeUsed_Keeps(used, a) == used
PoolFreeUsed(used, a) == DictPop(used, a)
PoolFreeFree(used, free, a) ==
    IF a \in DOMAIN used THEN DictSet(free, a, used[a]) ELSE free

SumSizes(f) ==
    LET RECURSIVE Sum(_)
        Sum(S) == IF S = {} THEN 0
                  ELSE LET x == CHOOSE y \in S : TRUE IN f[x] + Sum(S \ {x})
    IN Sum(DOMAIN f)

free_bytes == SumSizes(poolFree)
total_bytes == SumSizes(poolFree) + SumSizes(poolUsed)

\* ------------------------------------------------------------ call records
Call(op, status) ==
    [op |-> op, status |-> status, pool |-> "none", block |-> "none",
     h |-> 0, ptr |-> 0, size |-> 0, nbytes |-> 0, stream |-> 0,
     free |-> 0, total |-> 0]

Warning == [kind |-> "Warning", nbytes |-> 0, ptr |-> 0]
Allocated(n, a) == [kind |-> "Allocated", nbytes |-> n, ptr |-> a]
Freeing(n, a) == [kind |-> "Freeing", nbytes |-> n, ptr |-> a]
\* registry updates, recorded in the trace where the code performs them
Insert(a) == [kind |-> "insert", nbytes |-> 0, ptr |-> a]
Pop(a) == [kind |-> "pop", nbytes |-> 0, ptr |-> a]

StreamWarning_Silent(s) == <<>>
StreamWarning(s) == IF s # 0 THEN <<Warning>> ELSE <<>>

\* MemoryPointer(context, pointer, size, finalizer=...)
MemoryPointer_WrongSize(ptr, nbytes, fin) ==
    [ptr |-> ptr, size |-> 0, fin |-> fin]
MemoryPointer(ptr, nbytes, fin) ==
    [ptr |-> ptr, size |-> nbytes, fin |-> fin]

\* the closure built by _make_finalizer: it captures ptr, nbytes and logging
\* (and the registry dict itself, which is the variable allocations)
make_finalizer_Stale(ptr, nbytes) ==
    [ptr |-> 1, nbytes |-> nbytes, logging |-> logging]
make_finalizer(ptr, nbytes) ==
    [ptr |-> ptr, nbytes |-> nbytes, logging |-> logging]

\* invocations of finalizers beyond each handle's first one
Repeats ==
    LET RECURSIVE Sum(_)
        Sum(i) == IF i = 0 THEN 0
                  ELSE (IF finCalls[i] > 1 THEN finCalls[i] - 1 ELSE 0) + Sum(i - 1)
    IN Sum(Len(finCalls))

\* ------------------------------------------------------------------- init
Init ==
    /\ variant \in Variants
    /\ logging \in BOOLEAN
    /\ mp = IF variant = "nbep7" THEN None ELSE Unset
    /\ allocations = EmptyDict
    /\ handles = <<>>
    /\ finCalls = <<>>
    /\ poolUsed = EmptyDict
    /\ poolFree = EmptyDict
    /\ deferDepth = 0
    /\ snap = NoSnap
    /\ allocLog = <<>>
    /\ out = <<>>
    /\ ret = Call("init", "ok")

\* ---------------------------------------------------------------- actions
initialize ==
    /\ mp' = get_default_memory_pool
    /\ ret' = Call("initialize", "ok")
    /\ out' = <<>>
    /\ snap' = NoSnap
    /\ UNCHANGED <<allocLog, variant, logging, allocations, handles, finCalls,
                   poolUsed, poolFree, deferDepth>>

\* memalloc before initialize: self._mp is None (nbep7) or missing (orig)
memalloc_unbound(n, s) ==
    /\ ~HasPool(mp)
    /\ ret' = Call("memalloc", "AttributeError")
    /\ out' = StreamWarning(s)
    /\ snap' = NoSnap
    /\ UNCHANGED <<allocLog, variant, logging, mp, allocations, handles, finCalls,
                   poolUsed, poolFree, deferDepth>>

\* the pool's malloc raises: nothing after line 20 runs
memalloc_oom_Fallback(n, s) ==
    /\ HasPool(mp)
    /\ ret' = [Call("memalloc", "ok") EXCEPT !.pool = "OutOfMemoryError"]
    /\ poolFree' = EmptyDict
    /\ out' = StreamWarning(s)
    /\ snap' = NoSnap
    /\ UNCHANGED <<allocLog, variant, logging, mp, allocations, handles, finCalls,
                   poolUsed, deferDepth>>

memalloc_oom(n, s) ==
    /\ HasPool(mp)
    /\ ret' = [Call("memalloc", "OutOfMemoryError") EXCEPT
                   !.pool = "OutOfMemoryError"]
    /\ out' = StreamWarning(s)
    /\ snap' = NoSnap
    /\ UNCHANGED <<allocLog, variant, logging, mp, allocations, handles, finCalls,
                   poolUsed, poolFree, deferDepth>>

\* the body of memalloc once the pool has returned the block at address a
memalloc_body(n, s, a) ==
    LET id == Len(handles) + 1
        dropped == a \in DOMAIN allocations   \* the old value loses its last reference
        used1 == DictSet(poolUsed, a, PoolBlockSize(a, n))
        free1 == DictPop(poolFree, a)
        hnd == MemoryPointer(a, n, make_finalizer(a, n))
    IN /\ allocations' = DictSet(allocations, a, id)
       /\ poolUsed' = IF dropped THEN PoolFreeUsed(used1, a) ELSE used1
       /\ poolFree' = IF dropped THEN PoolFreeFree(used1, free1, a) ELSE free1
       /\ handles' = Append(handles, hnd)
       /\ finCalls' = Append(finCalls, 0)
       /\ out' = StreamWarning(s) \o
                 (IF logging THEN <<Allocated(n, a)>> ELSE <<>>) \o
                 <<Insert(a)>>
       /\ snap' = [keys |-> DOMAIN allocations, used |-> DOMAIN poolUsed,
                   stage |-> "allocated"]
       /\ ret' = [Call("memalloc", "ok") EXCEPT
                      !.pool = "ok", !.h = id, !.ptr = hnd.ptr, !.size = hnd.size,
                      !.nbytes = n, !.stream = s]
       /\ allocLog' = allocLog \o (IF logging THEN <<Allocated(n, a)>> ELSE <<>>)
       /\ UNCHANGED <<variant, logging, mp, deferDepth>>

memalloc_ok(n, s) ==
    /\ HasPool(mp)
    /\ Len(handles) < MaxHandles
    /\ \E a \in PoolMallocChoices(n) : memalloc_body(n, s, a)

\* the closure returned by _make_finalizer, invoked for handle h
finalizer_PopFirst(h) ==
    LET fin == handles[h].fin IN
    /\ h \in DOMAIN handles
    /\ finCalls[h] > 0 => Repeats < MaxRepeat
    /\ finCalls' = [finCalls EXCEPT ![h] = @ + 1]
    /\ snap' = NoSnap
    /\ IF fin.ptr \in DOMAIN allocations
       THEN /\ allocations' = DictPop(allocations, fin.ptr)
            /\ poolUsed' = PoolFreeUsed(poolUsed, fin.ptr)
            /\ poolFree' = PoolFreeFree(poolUsed, poolFree, fin.ptr)
            /\ out' = <<Pop(fin.ptr)>> \o
                      (IF fin.logging THEN <<Freeing(fin.nbytes, fin.ptr)>> ELSE <<>>)
            /\ ret' = [Call("finalizer", "ok") EXCEPT !.h = h, !.ptr = fin.ptr]
       ELSE /\ ret' = [Call("finalizer", "KeyError") EXCEPT
                           !.h = h, !.ptr = fin.ptr]
            /\ out' = <<Pop(fin.ptr)>>
            /\ UNCHANGED <<allocations, poolUsed, poolFree>>
    /\ UNCHANGED <<allocLog, variant, logging, mp, handles, deferDepth>>

finalizer(h) ==
    LET fin == handles[h].fin IN
    /\ h \in DOMAIN handles
    /\ finCalls[h] > 0 => Repeats < MaxRepeat
    /\ finCalls' = [finCalls EXCEPT ![h] = @ + 1]
    /\ out' = (IF fin.logging THEN <<Freeing(fin.nbytes, fin.ptr)>> ELSE <<>>) \o
              <<Pop(fin.ptr)>>
    /\ snap' = IF snap.stage = "allocated" /\ ret.h = h
               THEN [snap EXCEPT !.stage = "released"]
               ELSE NoSnap
    /\ IF fin.ptr \in DOMAIN allocations
       THEN /\ allocations' = DictPop(allocations, fin.ptr)
            /\ poolUsed' = PoolFreeUsed(poolUsed, fin.ptr)
            /\ poolFree' = PoolFreeFree(poolUsed, poolFree, fin.ptr)
            /\ ret' = [Call("finalizer", "ok") EXCEPT !.h = h, !.ptr = fin.ptr]
       ELSE /\ ret' = [Call("finalizer", "KeyError") EXCEPT
                           !.h = h, !.ptr = fin.ptr]
            /\ UNCHANGED <<allocations, poolUsed, poolFree>>
    /\ UNCHANGED <<allocLog, variant, logging, mp, handles, deferDepth>>

\* memory is a handle returned earlier (h > 0) or any other object (h = 0)
get_ipc_handle_Succeeds(h, s) ==
    /\ h = 0 \/ h \in DOMAIN handles
    /\ ret' = Call("get_ipc_handle", "ok")
    /\ out' = <<>>
    /\ snap' = NoSnap
    /\ UNCHANGED <<allocLog, variant, logging, mp, allocations, handles, finCalls,
                   poolUsed, poolFree, deferDepth>>

get_ipc_handle(h, s) ==
    /\ h = 0 \/ h \in DOMAIN handles
    /\ ret' = Call("get_ipc_handle", "NotImplementedError")
    /\ out' = <<>>
    /\ snap' = NoSnap
    /\ UNCHANGED <<allocLog, variant, logging, mp, allocations, handles, finCalls,
                   poolUsed, poolFree, deferDepth>>

get_memory_info_Swapped ==
    /\ ret' = IF variant = "orig"
              THEN Call("get_memory_info", "NotImplementedError")
              ELSE IF ~HasPool(mp)
              THEN Call("get_memory_info", "AttributeError")
              ELSE [Call("get_memory_info", "ok") EXCEPT
                        !.free = total_bytes, !.total = free_bytes]
    /\ out' = <<>>
    /\ snap' = NoSnap
    /\ UNCHANGED <<allocLog, variant, logging, mp, allocations, handles, finCalls,
                   poolUsed, poolFree, deferDepth>>

get_memory_info ==
    /\ ret' = IF variant = "orig"
              THEN Call("get_memory_info", "NotImplementedError")
              ELSE IF ~HasPool(mp)
              THEN Call("get_memory_info", "AttributeError")
              ELSE [Call("get_memory_info", "ok") EXCEPT
                        !.free = free_bytes, !.total = total_bytes]
    /\ out' = <<>>
    /\ snap' = NoSnap
    /\ UNCHANGED <<allocLog, variant, logging, mp, allocations, handles, finCalls,
                   poolUsed, poolFree, deferDepth>>

\* nbep7 guards the call with "if self._mp:", orig calls unconditionally
reset_FreesAll ==
    /\ HasPool(mp)
    /\ ret' = Call("reset", "ok")
    /\ poolFree' = EmptyDict
    /\ poolUsed' = EmptyDict
    /\ allocations' = EmptyDict
    /\ out' = <<>>
    /\ snap' = NoSnap
    /\ UNCHANGED <<allocLog, variant, logging, mp, handles, finCalls, deferDepth>>

reset ==
    LET calls == IF variant = "nbep7" THEN Truthy(mp) ELSE TRUE IN
    /\ IF ~calls
       THEN /\ ret' = Call("reset", "ok")
            /\ UNCHANGED poolFree
       ELSE IF ~HasPool(mp)
       THEN /\ ret' = Call("reset", "AttributeError")
            /\ UNCHANGED poolFree
       ELSE /\ ret' = Call("reset", "ok")
            /\ poolFree' = EmptyDict
    /\ out' = <<>>
    /\ snap' = NoSnap
    /\ UNCHANGED <<allocLog, variant, logging, mp, allocations, handles, finCalls,
                   poolUsed, deferDepth>>

\* "with super().defer_cleanup():" entered
defer_cleanup_enter ==
    /\ deferDepth < MaxDepth
    /\ deferDepth' = deferDepth + 1
    /\ ret' = Call("defer_cleanup_enter", "ok")
    /\ out' = <<>>
    /\ snap' = NoSnap
    /\ UNCHANGED <<allocLog, variant, logging, mp, allocations, handles, finCalls,
                   poolUsed, poolFree>>

\* the wrapped block ends, normally or by raising; the with statement exits
defer_cleanup_exit_Leaks(raised) ==
    /\ deferDepth > 0
    /\ deferDepth' = IF raised THEN deferDepth ELSE deferDepth - 1
    /\ ret' = [Call("defer_cleanup_exit", IF raised THEN "BlockError" ELSE "ok")
                   EXCEPT !.block = IF raised THEN "raised" ELSE "ok"]
    /\ out' = <<>>
    /\ snap' = NoSnap
    /\ UNCHANGED <<allocLog, variant, logging, mp, allocations, handles, finCalls,
                   poolUsed, poolFree>>

defer_cleanup_exit(raised) ==
    /\ deferDepth > 0
    /\ deferDepth' = deferDepth - 1
    /\ ret' = [Call("defer_cleanup_exit", IF raised THEN "BlockError" ELSE "ok")
                   EXCEPT !.block = IF raised THEN "raised" ELSE "ok"]
    /\ out' = <<>>
    /\ snap' = NoSnap
    /\ UNCHANGED <<allocLog, variant, logging, mp, allocations, handles, finCalls,
                   poolUsed, poolFree>>

Next ==
    \/ initialize
    \/ \E n \in NBytes, s \in Streams : memalloc_unbound(n, s)
    \/ \E n \in NBytes, s \in Streams : memalloc_oom(n, s)
    \/ \E n \in NBytes, s \in Streams : memalloc_ok(n, s)
    \/ \E h \in 1..MaxHandles : finalizer(h)
    \/ \E h \in 0..MaxHandles, s \in Streams : get_ipc_handle(h, s)
    \/ get_memory_info
    \/ reset
    \/ defer_cleanup_enter
    \/ \E raised \in BOOLEAN : defer_cleanup_exit(raised)

Spec == Init /\ [][Next]_vars

\* A pool that breaks its freshness guarantee: malloc hands out the address
\* of a block that is still registered.
memalloc_dup(n, s) ==
    /\ HasPool(mp)
    /\ Len(handles) < MaxHandles
    /\ \E a \in DOMAIN allocations : memalloc_body(n, s, a)

NextAnyPool ==
    \/ Next
    \/ \E n \in NBytes, s \in Streams : memalloc_dup(n, s)

SpecAnyPool == Init /\ [][NextAnyPool]_vars

\* ================================================================= claims
Initialized == mp \in Pools
Keys == DOMAIN allocations
InUse == DOMAIN poolUsed
LiveHandles == {h \in DOMAIN handles : finCalls[h] = 0}
LiveAddrs == {handles[h].ptr : h \in LiveHandles}
IsMemalloc == ret'.op = "memalloc"

\* C1: as long as no finalizer has been invoked twice, the keys of the
\* registry are exactly the addresses of the returned handles whose finalizer
\* has not run (so the registry is empty once every handle is released).
C1_RegistryIsLiveHandles == Repeats = 0 => Keys = LiveAddrs

\* an address was released, handed out again by the pool, and is live again
C1_Witness ==
    /\ Repeats = 0
    /\ \E h1, h2 \in DOMAIN handles :
          /\ h1 # h2
          /\ handles[h1].ptr = handles[h2].ptr
          /\ finCalls[h1] = 1
          /\ finCalls[h2] = 0

\* C2 (as claimed): the first invocation of a handle's finalizer succeeds and
\* removes its address; any later invocation of that finalizer fails with
\* KeyError and leaves the registry unchanged.
C2_OnceOkTwiceKeyError ==
    [][\A h \in DOMAIN finCalls :
          finCalls'[h] # finCalls[h] =>
             IF finCalls[h] = 0
             THEN ret'.status = "ok" /\ handles[h].ptr \notin DOMAIN allocations'
             ELSE ret'.status = "KeyError" /\ allocations' = allocations]_vars

\* C3: memalloc on an instance whose initialize never ran raises
\* (AttributeError on self._mp), returns no handle and changes neither the
\* registry, the pool nor the binding, in either variant.
C3_MemallocBeforeInitialize ==
    [][(IsMemalloc /\ ~Initialized) =>
          /\ ret'.status = "AttributeError"
          /\ ret'.h = 0
          /\ ret'.pool = "none"
          /\ UNCHANGED <<mp, allocations, handles, finCalls, poolUsed, poolFree>>]_vars

C3_Witness ==
    /\ ret.op = "memalloc"
    /\ ret.status = "AttributeError"
    /\ ~Initialized
    /\ variant = "orig"

\* C4: a memalloc(nbytes) that the pool serves returns a handle whose address
\* is the block the pool has just put in use and whose size is nbytes, and
\* the registry gains exactly that address, every older entry kept.
C4_MemallocReturnsPoolBlock ==
    [][(IsMemalloc /\ ret'.pool = "ok") =>
          /\ ret'.status = "ok"
          /\ InUse' \ InUse = {ret'.ptr}
          /\ ret'.size = ret'.nbytes
          /\ handles' = Append(handles, handles'[ret'.h])
          /\ handles'[ret'.h].ptr = ret'.ptr
          /\ handles'[ret'.h].size = ret'.nbytes
          /\ ret'.ptr \notin Keys
          /\ Keys' = Keys \cup {ret'.ptr}
          /\ \A a \in Keys : allocations'[a] = allocations[a]]_vars

C4_Witness ==
    /\ ret.op = "memalloc"
    /\ ret.status = "ok"
    /\ ret.nbytes = 80
    /\ Cardinality(Keys) = 2

\* C5 (as claimed): a memalloc whose pool address is already registered does
\* not succeed, and no memalloc replaces an entry the registry already holds.
C5_InsertRejectsDuplicate ==
    [][IsMemalloc =>
          /\ ret'.status = "ok" => ret'.ptr \notin Keys
          /\ \A a \in Keys : a \in Keys' /\ allocations'[a] = allocations[a]]_vars

\* C6: when the pool's malloc raises out-of-memory, memalloc raises that same
\* error, returns no handle, and leaves the registry, the handles and the
\* pool as they were (no retry, no fallback, no partial entry).
C6_OutOfMemoryPropagates ==
    [][(IsMemalloc /\ ret'.pool = "OutOfMemoryError") =>
          /\ ret'.status = "OutOfMemoryError"
          /\ ret'.h = 0
          /\ UNCHANGED <<mp, allocations, handles, finCalls, poolUsed, poolFree>>]_vars

C6_Witness ==
    /\ ret.op = "memalloc"
    /\ ret.status = "OutOfMemoryError"
    /\ Keys # {}
    /\ DOMAIN poolFree # {}

\* C7: get_ipc_handle raises NotImplementedError whatever its arguments and
\* whatever the state, and changes nothing.
C7_IpcHandleUnsupported ==
    [][ret'.op = "get_ipc_handle" =>
          /\ ret'.status = "NotImplementedError"
          /\ UNCHANGED <<mp, allocations, handles, finCalls, poolUsed, poolFree>>]_vars

C7_Witness ==
    /\ ret.op = "get_ipc_handle"
    /\ ret.status = "NotImplementedError"
    /\ Initialized
    /\ Keys # {}

\* C8: memalloc(n) immediately followed by the finalizer of the handle it
\* returned restores the registry's key set and the pool's in-use blocks.
C8_AllocateReleaseRoundTrip ==
    snap.stage = "released" => Keys = snap.keys /\ InUse = snap.used

C8_Witness ==
    /\ snap.stage = "released"
    /\ snap.keys # {}
    /\ ret.status = "ok"

\* C9: reset on an instance whose initialize never ran returns normally and
\* changes nothing in the nbep7 variant, and raises in the original variant.
C9_ResetBeforeInitialize ==
    [][(ret'.op = "reset" /\ ~Initialized) =>
          IF variant = "nbep7"
          THEN /\ ret'.status = "ok"
               /\ UNCHANGED <<mp, allocations, handles, finCalls, poolUsed, poolFree>>
          ELSE ret'.status = "AttributeError"]_vars

C9_Witness ==
    /\ ret.op = "reset"
    /\ ret.status = "ok"
    /\ mp = None
    /\ variant = "nbep7"

\* C10: the instance starts unbound, initialize binds it to the default
\* pool, and once bound no call unbinds it or binds it to another pool.
C10_BindingIsMonotone ==
    /\ ~Initialized
    /\ [][/\ ret'.op = "initialize" => mp' = DefaultPool
          /\ Initialized => mp' = mp
          /\ mp' \in Pools => mp' = DefaultPool]_vars

\* initialize called again on an instance that already serves allocations
C10_Witness ==
    /\ ret.op = "initialize"
    /\ mp = DefaultPool
    /\ Keys # {}

\* C11: get_memory_info changes nothing; in the nbep7 variant it raises
\* before initialize and otherwise returns the pool's free and total byte
\* counts; in the original variant it raises NotImplementedError always.
C11_MemoryInfo ==
    [][ret'.op = "get_memory_info" =>
          /\ UNCHANGED <<mp, allocations, handles, finCalls, poolUsed, poolFree>>
          /\ IF variant = "orig" THEN ret'.status = "NotImplementedError"
             ELSE IF ~Initialized THEN ret'.status = "AttributeError"
             ELSE /\ ret'.status = "ok"
                  /\ ret'.free = SumSizes(poolFree)
                  /\ ret'.total = SumSizes(poolFree) + SumSizes(poolUsed)]_vars

C11_Witness ==
    /\ ret.op = "get_memory_info"
    /\ ret.status = "ok"
    /\ ret.free > 0
    /\ ret.total > ret.free

\* C12: leaving defer_cleanup, whether the wrapped block ended normally or
\* raised, takes the scope depth back to its value before the entry (the
\* entry had raised it by one), and an error of the block reaches the caller.
C12_DeferCleanupCloses ==
    [][ret'.op = "defer_cleanup_exit" =>
          /\ deferDepth' = deferDepth - 1
          /\ ret'.block = "raised" => ret'.status = "BlockError"
          /\ ret'.block = "ok" => ret'.status = "ok"
          /\ UNCHANGED <<mp, allocations, handles, finCalls, poolUsed, poolFree>>]_vars

C12_Witness ==
    /\ ret.op = "defer_cleanup_exit"
    /\ ret.block = "raised"
    /\ ret.status = "BlockError"
    /\ deferDepth = 0
    /\ Keys # {}

\* C13: when every finalizer is invoked at most once, in whatever order and
\* interleaved with memalloc calls, each invocation succeeds and the registry
\* afterwards is fixed by which handles have been released, not by the order.
C13_AnyReleaseOrder ==
    (ret.op = "finalizer" /\ Repeats = 0) =>
        /\ ret.status = "ok"
        /\ handles[ret.h].ptr \notin Keys
        /\ Keys = LiveAddrs

\* the handle allocated first is released after the one allocated second
C13_Witness ==
    /\ ret.op = "finalizer"
    /\ ret.h = 1
    /\ Len(handles) = 2
    /\ finCalls = <<1, 1>>
    /\ handles[1].ptr # handles[2].ptr

\* C14 (as claimed): a finalizer removes no registry entry that belongs to
\* another allocation, and a repeated invocation never returns normally.
C14_FinalizerBoundToAllocation ==
    [][\A h \in DOMAIN finCalls :
          finCalls'[h] # finCalls[h] =>
             /\ \A a \in Keys : allocations[a] # h => a \in Keys'
             /\ finCalls[h] > 0 => ret'.status # "ok"]_vars

\* C15: the blocks of the pool in use are exactly the registered addresses,
\* and a block leaves use only in a finalizer call that removes its entry.
C15_InUseIsRegistry ==
    /\ [](InUse = Keys)
    /\ [][\A a \in InUse \ InUse' :
             /\ ret'.op = "finalizer"
             /\ ret'.ptr = a
             /\ a \in Keys /\ a \notin Keys'
             /\ a \in DOMAIN poolFree']_vars

C15_Witness ==
    /\ ret.op = "finalizer"
    /\ ret.status = "ok"
    /\ ret.ptr \in DOMAIN poolFree
    /\ Keys # {}

\* C16: with two or more handles live and every finalizer invoked at most
\* once, a finalizer call removes exactly its handle's address; all other
\* entries stay, and every other live handle stays registered under its own
\* allocation, so it can still be released.
C16_FinalizerFrame ==
    [][\A h \in DOMAIN finCalls :
          (/\ finCalls'[h] # finCalls[h]
           /\ Repeats' = 0
           /\ Cardinality(LiveHandles) >= 2) =>
             /\ handles[h].ptr \in Keys
             /\ Keys' = Keys \ {handles[h].ptr}
             /\ \A a \in Keys' : allocations'[a] = allocations[a]
             /\ \A g \in LiveHandles \ {h} :
                   /\ finCalls'[g] = 0
                   /\ handles'[g] = handles[g]
                   /\ handles[g].ptr \in Keys'
                   /\ allocations'[handles[g].ptr] = g]_vars

C16_Witness ==
    /\ ret.op = "finalizer"
    /\ ret.status = "ok"
    /\ Repeats = 0
    /\ Len(handles) = 2
    /\ Cardinality(LiveHandles) = 1
    /\ Cardinality(Keys) = 1

\* C17: reset on a bound instance returns normally; the pool gives up only
\* blocks that were free, and the registry, the handles and the blocks in
\* use are as before.
C17_ResetFrame ==
    [][(ret'.op = "reset" /\ Initialized) =>
          /\ ret'.status = "ok"
          /\ UNCHANGED <<mp, allocations, handles, finCalls, poolUsed>>
          /\ DOMAIN poolFree' \subseteq DOMAIN poolFree]_vars

C17_Witness ==
    /\ ret.op = "reset"
    /\ ret.status = "ok"
    /\ Initialized
    /\ Keys # {}
    /\ \E h \in DOMAIN handles : finCalls[h] = 1

\* C18: a served memalloc has the same handle and the same effect on the
\* registry and the pool whatever the stream; a non-default stream only puts
\* the warning in front of what the call prints.
C18_StreamOnlyWarns ==
    [][(IsMemalloc /\ ret'.pool = "ok") =>
          LET id == Len(handles) + 1
              a == ret'.ptr
              n == ret'.nbytes
              rest == (IF logging THEN <<Allocated(n, a)>> ELSE <<>>) \o <<Insert(a)>>
          IN /\ ret'.status = "ok"
             /\ ret'.h = id
             /\ handles' = Append(handles,
                              [ptr |-> a, size |-> n,
                               fin |-> [ptr |-> a, nbytes |-> n, logging |-> logging]])
             /\ allocations' = [x \in Keys \cup {a} |->
                                   IF x = a THEN id ELSE allocations[x]]
             /\ InUse' = InUse \cup {a}
             /\ DOMAIN poolFree' = DOMAIN poolFree \ {a}
             /\ out' = IF ret'.stream # 0 THEN <<Warning>> \o rest ELSE rest]_vars

C18_Witness ==
    /\ ret.op = "memalloc"
    /\ ret.status = "ok"
    /\ ret.stream = 1
    /\ Head(out) = Warning
    /\ Cardinality(Keys) = 2

\* C19: with logging on, every finalizer call prints one Freeing record with
\* the size and address of its handle before it pops the registry, and that
\* record's Allocated twin was printed earlier; every successful memalloc
\* prints one Allocated record with its size and address before the insert.
C19_LogOrder ==
    logging =>
       /\ ret.op = "finalizer" =>
             LET hd == handles[ret.h] IN
             /\ out = <<Freeing(hd.size, hd.ptr), Pop(hd.ptr)>>
             /\ \E i \in DOMAIN allocLog : allocLog[i] = Allocated(hd.size, hd.ptr)
       /\ (ret.op = "memalloc" /\ ret.status = "ok") =>
             LET rest == IF ret.stream # 0 THEN Tail(out) ELSE out IN
             /\ rest = <<Allocated(ret.nbytes, ret.ptr), Insert(ret.ptr)>>
             /\ Len(allocLog) = Len(handles)
             /\ allocLog[Len(allocLog)] = Allocated(ret.nbytes, ret.ptr)

\* the Freeing record is printed even by a call whose pop then fails
C19_Witness ==
    /\ logging
    /\ ret.op = "finalizer"
    /\ ret.status = "KeyError"
    /\ out[1].kind = "Freeing"

====
